---- MODULE Spec2Model ----
(***************************************************************************)
(* Model of src/http/headers/serialization_utils.rs (rust-http): header    *)
(* name normalisation, comma splitting, token / quoted-string conversion   *)
(* and parameter serialisation, both into a String and into a Writer.      *)
(*                                                                         *)
(* A Rust String is a sequence of chars; a char is its code point.  The    *)
(* bytes of a String are its UTF-8 encoding (as_bytes).  A call that       *)
(* panics yields the result kind "Panic".                                  *)
(***************************************************************************)
EXTENDS Integers, Sequences, FiniteSets, TLC

VARIABLES ops, t, params, res, segs, sink

vars == <<ops, t, params, res, segs, sink>>

---------------------------------------------------------------------------
(* Bounds of the model. *)

\* longest input string (in chars) handed to the string functions
MaxLen == 5
\* longest parameter list
MaxParams == 2
\* latest write call at which the sink may be made to fail
MaxFailAt == 12

---------------------------------------------------------------------------
(* Characters the code names. *)

\* '"'  (b'"')
DQUOTE == 34
\* '\\' (b'\\')
BACKSLASH == 92
\* '-'  ("ASCII 45 is '-'")
HYPHEN == 45
\* ','
COMMA == 44
\* ';'
SEMICOLON == 59
\* '='
EQUALS == 61

\* Pointer width of the build: s.len() is a uint of this many bits.  The
\* strings of the model are far shorter than 2^16 bytes, so, as with 32 or
\* 64 bits, the only subtraction that wraps is s.len() - 2 for s.len() < 2.
UsizeBits == 16

\* Characters the inputs are drawn from: '"', '\\', ' ', ',', '-', 'A', 'a'
\* and the two-byte character U+015C, whose low eight bits are those of '\\'.
QuoteChars == {DQUOTE, BACKSLASH, 32, 97, 348}
NameChars  == {HYPHEN, 65, 97, 49, 348}
SplitChars == {COMMA, 32, 97, DQUOTE}

RECURSIVE StringsUpTo(_, _)
StringsUpTo(chars, n) ==
    IF n = 0 THEN {<<>>}
    ELSE LET shorter == StringsUpTo(chars, n - 1)
         IN  shorter \cup {Append(w, c) : w \in {x \in shorter : Len(x) = n - 1}, c \in chars}

---------------------------------------------------------------------------
(* Results. *)

None      == [kind |-> "None",  val |-> <<>>, err |-> 0]
Some(v)   == [kind |-> "Some",  val |-> v,    err |-> 0]
Str(v)    == [kind |-> "String", val |-> v,   err |-> 0]
Panic     == [kind |-> "Panic", val |-> <<>>, err |-> 0]
Ok        == [kind |-> "Ok",    val |-> <<>>, err |-> 0]
Err(e)    == [kind |-> "Err",   val |-> <<>>, err |-> e]
NoResult  == [kind |-> "none",  val |-> <<>>, err |-> 0]

---------------------------------------------------------------------------
(* Strings and bytes. *)

\* UTF-8 encoding of one char
utf8(c) ==
    IF c < 128 THEN <<c>>
    ELSE IF c < 2048 THEN <<192 + (c \div 64), 128 + (c % 64)>>
    ELSE IF c < 65536 THEN <<224 + (c \div 4096), 128 + ((c \div 64) % 64), 128 + (c % 64)>>
    ELSE <<240 + (c \div 262144), 128 + ((c \div 4096) % 64),
           128 + ((c \div 64) % 64), 128 + (c % 64)>>

\* s.as_bytes()
RECURSIVE as_bytes(_)
as_bytes(s) == IF s = <<>> THEN <<>> ELSE utf8(Head(s)) \o as_bytes(Tail(s))

\* s.len(): the length in bytes
len(s) == Len(as_bytes(s))

\* a - b on uint: wraps modulo 2^UsizeBits
usize_sub(a, b) == (a - b) % (2 ^ UsizeBits)

\* String::reserve(n): a request beyond the largest allocation ends the
\* task (capacity overflow / out of memory), any other succeeds.  A build
\* that checks arithmetic overflow ends the task at the subtraction instead.
reserve_ok(n) == n < 2 ^ (UsizeBits - 1)

---------------------------------------------------------------------------
(* rfc2616::is_token: a non-empty string of CHARs that are neither CTLs    *)
(* nor separators.                                                         *)

Separators == {40, 41, 60, 62, 64, 44, 59, 58, 92, 34, 47, 91, 93, 63, 61, 123, 125, 32, 9}

is_token_item(c) == c > 31 /\ c < 127 /\ c \notin Separators

is_token(s) == s /= <<>> /\ \A i \in 1..Len(s) : is_token_item(s[i])

---------------------------------------------------------------------------
(* Quoting. *)

\* push_quoted_chars escaping '"' only
RECURSIVE push_quoted_chars_quote_only(_, _, _)
push_quoted_chars_quote_only(s, w, i) ==
    IF i > Len(w) THEN s
    ELSE LET c  == w[i]
             s1 == IF c = DQUOTE THEN Append(s, BACKSLASH) ELSE s
         IN  push_quoted_chars_quote_only(Append(s1, c), w, i + 1)

RECURSIVE push_quoted_chars(_, _, _)
push_quoted_chars(s, w, i) ==
    IF i > Len(w) THEN s
    ELSE LET c  == w[i]
             s1 == IF c = BACKSLASH \/ c = DQUOTE THEN Append(s, BACKSLASH) ELSE s
         IN  push_quoted_chars(Append(s1, c), w, i + 1)

push_quoted_string(s, w) ==
    Append(push_quoted_chars(Append(s, DQUOTE), w, 1), DQUOTE)

quoted_string(s) == push_quoted_string(<<>>, s)

maybe_quoted_string(s) == IF is_token(s) THEN s ELSE quoted_string(s)

push_maybe_quoted_string(s, w) ==
    IF is_token(w) THEN s \o w ELSE push_quoted_string(s, w)

---------------------------------------------------------------------------
(* Unquoting. *)

RECURSIVE unquote_loop(_, _, _, _)
unquote_loop(state, s, i, output) ==
    IF i <= Len(s)
    THEN LET c == s[i] IN
         CASE state = "Start" /\ c = DQUOTE     -> unquote_loop("Normal", s, i + 1, output)
           [] state = "Start" /\ c /= DQUOTE    -> None
           [] state = "Normal" /\ c = BACKSLASH -> unquote_loop("Escaping", s, i + 1, output)
           [] state = "Normal" /\ c = DQUOTE    -> unquote_loop("End", s, i + 1, output)
           [] state = "Normal" /\ c \notin {BACKSLASH, DQUOTE}
                                                -> unquote_loop("Normal", s, i + 1, Append(output, c))
           [] state = "Escaping"                -> unquote_loop("Normal", s, i + 1, Append(output, c))
           [] state = "End"                     -> None
    ELSE IF state = "End" THEN Some(output) ELSE None

unquote_string(s) ==
    IF reserve_ok(usize_sub(len(s), 2))
    THEN unquote_loop("Start", s, 1, <<>>)
    ELSE Panic

\* maybe_unquote_string without the token branch
maybe_unquote_string_quoted_only(s) == unquote_string(s)

maybe_unquote_string(s) ==
    IF is_token(s) THEN Some(s) ELSE unquote_string(s)

---------------------------------------------------------------------------
(* Header names. *)

\* c.to_ascii(): defined for ASCII only, fails the task otherwise
is_ascii(c) == c < 128

\* Ascii::to_uppercase / Ascii::to_lowercase
to_uppercase(c) == IF c >= 97 /\ c <= 122 THEN c - 32 ELSE c
to_lowercase(c) == IF c >= 65 /\ c <= 90 THEN c + 32 ELSE c

\* normalise_loop that capitalises but never lowercases
RECURSIVE normalise_loop_no_lowercase(_, _, _, _)
normalise_loop_no_lowercase(name, i, result, capitalise) ==
    IF i > Len(name) THEN Str(result)
    ELSE IF ~is_ascii(name[i]) THEN Panic
    ELSE LET c == IF capitalise THEN to_uppercase(name[i]) ELSE name[i]
         IN  normalise_loop_no_lowercase(name, i + 1, Append(result, c), c = HYPHEN)

\* normalise_loop that passes a non-ASCII char through unchanged
RECURSIVE normalise_loop_pass_through(_, _, _, _)
normalise_loop_pass_through(name, i, result, capitalise) ==
    IF i > Len(name) THEN Str(result)
    ELSE LET c == IF capitalise THEN to_uppercase(name[i]) ELSE to_lowercase(name[i])
         IN  normalise_loop_pass_through(name, i + 1, Append(result, c), c = HYPHEN)

RECURSIVE normalise_loop(_, _, _, _)
normalise_loop(name, i, result, capitalise) ==
    IF i > Len(name) THEN Str(result)
    ELSE IF ~is_ascii(name[i]) THEN Panic
    ELSE LET c == IF capitalise THEN to_uppercase(name[i]) ELSE to_lowercase(name[i])
         IN  normalise_loop(name, i + 1, Append(result, c), c = HYPHEN)

normalise_header_name(name) == normalise_loop(name, 1, <<>>, TRUE)

---------------------------------------------------------------------------
(* Comma-separated lists. *)

\* char::is_whitespace (the White_Space code points)
is_whitespace(c) ==
    \/ c \in 9..13
    \/ c \in {32, 133, 160, 5760, 8232, 8233, 8239, 8287, 12288}
    \/ c \in 8192..8202

\* w.trim_left()
RECURSIVE trim_left(_)
trim_left(w) ==
    IF w /= <<>> /\ is_whitespace(Head(w)) THEN trim_left(Tail(w)) ELSE w

\* value.split(','): the pieces between the commas, in order
RECURSIVE split_loop(_, _, _, _)
split_loop(value, i, piece, acc) ==
    IF i > Len(value) THEN Append(acc, piece)
    ELSE IF value[i] = COMMA THEN split_loop(value, i + 1, <<>>, Append(acc, piece))
    ELSE split_loop(value, i + 1, Append(piece, value[i]), acc)

\* comma_split without trim_left
comma_split_untrimmed(value) == split_loop(value, 1, <<>>, <<>>)

comma_split(value) ==
    LET pieces == split_loop(value, 1, <<>>, <<>>)
    IN  [k \in 1..Len(pieces) |-> trim_left(pieces[k])]

---------------------------------------------------------------------------
(* Parameters pushed onto a String. *)

\* push_parameter that quotes every value
push_parameter_always_quoted(s, k, v) ==
    push_quoted_string(Append(s \o k, EQUALS), v)

push_parameter(s, k, v) ==
    push_maybe_quoted_string(Append(s \o k, EQUALS), v)

RECURSIVE push_parameters_loop(_, _, _)
push_parameters_loop(s, parameters, i) ==
    IF i > Len(parameters) THEN s
    ELSE push_parameters_loop(
             push_parameter(Append(s, SEMICOLON), parameters[i][1], parameters[i][2]),
             parameters, i + 1)

push_parameters(s, parameters) == push_parameters_loop(s, parameters, 1)

---------------------------------------------------------------------------
(* The Writer.  A sink counts the write calls made on it and keeps the     *)
(* bytes of the successful ones; its call number failAt (if any) fails     *)
(* with the error errno.  w.r is the result of the latest call.            *)

NewSink(failAt, errno) ==
    [failAt |-> failAt, errno |-> errno, calls |-> 0, out |-> <<>>, r |-> Ok]

\* self.write(buf)
write(w, buf) ==
    IF w.calls + 1 = w.failAt
    THEN [w EXCEPT !.calls = @ + 1, !.r = Err(w.errno)]
    ELSE [w EXCEPT !.calls = @ + 1, !.out = @ \o buf, !.r = Ok]

\* try!(e): an Err leaves the function at once
is_err(w) == w.r.kind = "Err"

\* write_quoted_bytes escaping '"' only
RECURSIVE write_quoted_bytes_quote_only(_, _, _)
write_quoted_bytes_quote_only(w, bytes, i) ==
    IF i > Len(bytes) THEN w
    ELSE LET b  == bytes[i]
             w1 == IF b = DQUOTE THEN write(w, <<BACKSLASH>>) ELSE w
         IN  IF is_err(w1) THEN w1
             ELSE LET w2 == write(w1, <<b>>)
                  IN  IF is_err(w2) THEN w2
                      ELSE write_quoted_bytes_quote_only(w2, bytes, i + 1)

RECURSIVE write_quoted_bytes(_, _, _)
write_quoted_bytes(w, bytes, i) ==
    IF i > Len(bytes) THEN w
    ELSE LET b  == bytes[i]
             w1 == IF b = BACKSLASH \/ b = DQUOTE THEN write(w, <<BACKSLASH>>) ELSE w
         IN  IF is_err(w1) THEN w1
             ELSE LET w2 == write(w1, <<b>>)
                  IN  IF is_err(w2) THEN w2 ELSE write_quoted_bytes(w2, bytes, i + 1)

write_quoted_string(w, s) ==
    LET w1 == write(w, <<DQUOTE>>)
    IN  IF is_err(w1) THEN w1
        ELSE LET w2 == write_quoted_bytes(w1, as_bytes(s), 1)
             IN  IF is_err(w2) THEN w2 ELSE write(w2, <<DQUOTE>>)

write_maybe_quoted_string(w, s) ==
    IF is_token(s) THEN write(w, as_bytes(s)) ELSE write_quoted_string(w, s)

\* write_parameter without try! on its first two writes
write_parameter_unchecked(w, k, v) ==
    write_maybe_quoted_string(write(write(w, as_bytes(k)), <<EQUALS>>), v)

write_parameter(w, k, v) ==
    LET w1 == write(w, as_bytes(k))
    IN  IF is_err(w1) THEN w1
        ELSE LET w2 == write(w1, <<EQUALS>>)
             IN  IF is_err(w2) THEN w2 ELSE write_maybe_quoted_string(w2, v)

RECURSIVE write_parameters_loop(_, _, _)
write_parameters_loop(w, parameters, i) ==
    IF i > Len(parameters) THEN [w EXCEPT !.r = Ok]
    ELSE LET w1 == write(w, <<SEMICOLON>>)
         IN  IF is_err(w1) THEN w1
             ELSE LET w2 == write_parameter(w1, parameters[i][1], parameters[i][2])
                  IN  IF is_err(w2) THEN w2
                      ELSE write_parameters_loop(w2, parameters, i + 1)

write_parameters(w, parameters) == write_parameters_loop(w, parameters, 1)

---------------------------------------------------------------------------
(* The inputs. *)

\* parameter names and values: tokens, non-tokens, the empty string, both
\* escaped characters and a two-byte character
ParamNames  == {<<97>>, <<DQUOTE, 97>>}
ParamValues == {<<>>, <<97>>, <<97, 32>>, <<BACKSLASH, DQUOTE>>, <<348>>, <<97, 348, BACKSLASH>>}
Prefixes    == {<<>>, <<97>>, <<DQUOTE>>, <<97, 32, 348>>}

RECURSIVE ListsUpTo(_, _)
ListsUpTo(S, n) ==
    IF n = 0 THEN {<<>>}
    ELSE LET shorter == ListsUpTo(S, n - 1)
         IN  shorter \cup {Append(l, x) : l \in {y \in shorter : Len(y) = n - 1}, x \in S}

ParamLists == ListsUpTo(ParamNames \X ParamValues, MaxParams)

IdleSink == NewSink(0, 0)

---------------------------------------------------------------------------
(* Token and quoted-string conversion: a caller converts an input string   *)
(* t, and may hand the String it got to the reverse conversion.            *)

\* the string the next call is applied to
cur == IF ops = <<>> THEN t ELSE res.val

CanFeed == ops = <<>> \/ (Len(ops) = 1 /\ res.kind = "String")

InitQuote ==
    /\ ops = <<>>
    /\ t \in StringsUpTo(QuoteChars, MaxLen)
    /\ params = <<>>
    /\ res = NoResult
    /\ segs = <<>>
    /\ sink = IdleSink

QuotedString ==
    /\ ops = <<>>
    /\ ops' = Append(ops, "quoted_string")
    /\ res' = Str(quoted_string(cur))
    /\ UNCHANGED <<t, params, segs, sink>>

MaybeQuotedString ==
    /\ ops = <<>>
    /\ ops' = Append(ops, "maybe_quoted_string")
    /\ res' = Str(maybe_quoted_string(cur))
    /\ UNCHANGED <<t, params, segs, sink>>

UnquoteString ==
    /\ CanFeed
    /\ ops' = Append(ops, "unquote_string")
    /\ res' = unquote_string(cur)
    /\ UNCHANGED <<t, params, segs, sink>>

MaybeUnquoteString ==
    /\ CanFeed
    /\ ops' = Append(ops, "maybe_unquote_string")
    /\ res' = maybe_unquote_string(cur)
    /\ UNCHANGED <<t, params, segs, sink>>

NextQuote == QuotedString \/ MaybeQuotedString \/ UnquoteString \/ MaybeUnquoteString

Spec == InitQuote /\ [][NextQuote]_vars

---------------------------------------------------------------------------
(* Header names and comma-separated lists. *)

InitHeader ==
    /\ ops = <<>>
    /\ t \in StringsUpTo(NameChars, MaxLen) \cup StringsUpTo(SplitChars, MaxLen)
    /\ params = <<>>
    /\ res = NoResult
    /\ segs = <<>>
    /\ sink = IdleSink

NormaliseHeaderName ==
    /\ ops = <<>>
    /\ ops' = Append(ops, "normalise_header_name")
    /\ res' = normalise_header_name(t)
    /\ UNCHANGED <<t, params, segs, sink>>

CommaSplit ==
    /\ ops = <<>>
    /\ ops' = Append(ops, "comma_split")
    /\ segs' = comma_split(t)
    /\ UNCHANGED <<t, params, res, sink>>

NextHeader == NormaliseHeaderName \/ CommaSplit

SpecHeader == InitHeader /\ [][NextHeader]_vars

---------------------------------------------------------------------------
(* Parameters: pushed onto a String, or written to a sink that may fail.   *)

InitParams ==
    /\ ops = <<>>
    /\ t \in Prefixes
    /\ params \in ParamLists
    /\ res = NoResult
    /\ segs = <<>>
    /\ \E failAt \in 0..MaxFailAt, errno \in {1, 2} : sink = NewSink(failAt, errno)

PushParameters ==
    /\ ops = <<>>
    /\ ops' = Append(ops, "push_parameters")
    /\ res' = Str(push_parameters(t, params))
    /\ UNCHANGED <<t, params, segs, sink>>

WriteParameters ==
    /\ ops = <<>>
    /\ ops' = Append(ops, "write_parameters")
    /\ sink' = write_parameters(sink, params)
    /\ res' = sink'.r
    /\ UNCHANGED <<t, params, segs>>

WriteParameter ==
    /\ ops = <<>>
    /\ params /= <<>>
    /\ ops' = Append(ops, "write_parameter")
    /\ sink' = write_parameter(sink, params[1][1], params[1][2])
    /\ res' = sink'.r
    /\ UNCHANGED <<t, params, segs>>

WriteQuotedString ==
    /\ ops = <<>>
    /\ ops' = Append(ops, "write_quoted_string")
    /\ sink' = write_quoted_string(sink, t)
    /\ res' = sink'.r
    /\ UNCHANGED <<t, params, segs>>

NextParams == PushParameters \/ WriteParameters \/ WriteParameter \/ WriteQuotedString

SpecParams == InitParams /\ [][NextParams]_vars

---------------------------------------------------------------------------
(* Properties of the token and quoted-string conversion (Spec). *)

Has(s, c) == \E i \in 1..Len(s) : s[i] = c

\* C1: for every string t, unquote_string(quoted_string(t)) is Some(t).
C1_QuoteUnquoteRoundTrip ==
    ops = <<"quoted_string", "unquote_string">> => res = Some(t)

C1_Witness ==
    /\ ops = <<"quoted_string", "unquote_string">>
    /\ Has(t, DQUOTE) /\ Has(t, BACKSLASH) /\ Has(t, 348)
    /\ res = Some(t)

\* C2: for every string t, maybe_unquote_string(maybe_quoted_string(t)) is
\* Some(t), and what quoted_string returns is never a token.
C2_MaybeQuoteUnquoteRoundTrip ==
    /\ ops = <<"maybe_quoted_string", "maybe_unquote_string">> => res = Some(t)
    /\ ops = <<"quoted_string">> => ~is_token(res.val)

C2_Witness ==
    /\ ops = <<"maybe_quoted_string", "maybe_unquote_string">>
    /\ ~is_token(t) /\ Has(t, DQUOTE) /\ Has(t, 97)
    /\ res = Some(t)

\* Position i of s follows an odd number of consecutive backslashes of the
\* body (the body starts at position 2): the character there is escaped.
Escaped(s, i) ==
    Cardinality({k \in 2..(i - 1) : \A j \in k..(i - 1) : s[j] = BACKSLASH}) % 2 = 1

\* s is one quoted-string and nothing else
WellFormedQuoted(s) ==
    /\ Len(s) >= 2
    /\ s[1] = DQUOTE
    /\ s[Len(s)] = DQUOTE /\ ~Escaped(s, Len(s))
    /\ \A i \in 2..(Len(s) - 1) : s[i] = DQUOTE => Escaped(s, i)

\* the body of s without its escaping backslashes
UnescapedBody(s) ==
    LET idx  == [k \in 1..(Len(s) - 2) |-> k + 1]
        kept == SelectSeq(idx, LAMBDA i : ~(s[i] = BACKSLASH /\ ~Escaped(s, i)))
    IN  [k \in 1..Len(kept) |-> s[kept[k]]]

\* C3: unquote_string(s) is Some(body without the escaping backslashes) when
\* s is exactly one quoted-string, and None for every other input.
C3_UnquoteExactlyOneQuotedString ==
    ops = <<"unquote_string">> =>
        res = IF WellFormedQuoted(t) THEN Some(UnescapedBody(t)) ELSE None

\* The same on the inputs of at least two bytes.
UnquoteFromTwoBytes ==
    ops = <<"unquote_string">> /\ len(t) >= 2 =>
        res = IF WellFormedQuoted(t) THEN Some(UnescapedBody(t)) ELSE None

\* C4: unquote_string on an input shorter than two characters returns None.
C4_UnquoteShortInputIsNone ==
    ops = <<"unquote_string">> /\ Len(t) < 2 => res = None

---------------------------------------------------------------------------
(* Properties of header names and comma-separated lists (SpecHeader). *)

AllAscii(s) == \A i \in 1..Len(s) : s[i] < 128

UpperForm(c) == IF c \in 97..122 THEN c - 32 ELSE c
LowerForm(c) == IF c \in 65..90 THEN c + 32 ELSE c

\* C5: for an all-ASCII name the result has the same length, the character
\* at position 0 and every character right after a '-' is in upper case and
\* every other character in lower case.
C5_NormaliseCapitalisation ==
    ops = <<"normalise_header_name">> /\ AllAscii(t) =>
        /\ res.kind = "String"
        /\ Len(res.val) = Len(t)
        /\ \A i \in 1..Len(t) :
               res.val[i] = IF i = 1 \/ t[i - 1] = HYPHEN
                            THEN UpperForm(t[i]) ELSE LowerForm(t[i])

C5_Witness ==
    /\ ops = <<"normalise_header_name">>
    /\ t = <<65, 65, HYPHEN, 97>>
    /\ res = Str(<<65, 97, HYPHEN, 65>>)

\* C6 as claimed: on a name with a non-ASCII character normalise_header_name
\* returns an invalid result or an error to its caller, not a fatal fault.
C6_NonAsciiIsRecoverable ==
    ops = <<"normalise_header_name">> /\ ~AllAscii(t) => res.kind \in {"None", "Err"}

\* C6 as amended: on a name with a non-ASCII character normalise_header_name
\* ends in a fatal fault and returns no string.
C6_NonAsciiIsFatal ==
    ops = <<"normalise_header_name">> /\ ~AllAscii(t) => res = Panic

C6_Witness ==
    /\ ops = <<"normalise_header_name">>
    /\ Len(t) = 3 /\ t[1] = 97 /\ t[2] = HYPHEN /\ t[3] = 348
    /\ res = Panic

\* the position of the k-th comma of s
CommaAt(s, k) ==
    CHOOSE i \in 1..Len(s) :
        s[i] = COMMA /\ Cardinality({j \in 1..(i - 1) : s[j] = COMMA}) = k - 1

\* w is piece without its leading whitespace
LeftTrimmed(piece, w) ==
    \E j \in 0..Len(piece) :
        /\ \A m \in 1..j : is_whitespace(piece[m])
        /\ j < Len(piece) => ~is_whitespace(piece[j + 1])
        /\ w = SubSeq(piece, j + 1, Len(piece))

\* C7: comma_split returns (number of commas) + 1 segments, in order, each
\* the text between two consecutive commas without its leading whitespace.
C7_CommaSplitSegments ==
    ops = <<"comma_split">> =>
        LET n == Cardinality({i \in 1..Len(t) : t[i] = COMMA})
        IN  /\ Len(segs) = n + 1
            /\ \A k \in 1..(n + 1) :
                   LET lo == IF k = 1 THEN 0 ELSE CommaAt(t, k - 1)
                       hi == IF k = n + 1 THEN Len(t) + 1 ELSE CommaAt(t, k)
                   IN  LeftTrimmed(SubSeq(t, lo + 1, hi - 1), segs[k])

C7_Witness ==
    /\ ops = <<"comma_split">>
    /\ t = <<32, 97, 32, COMMA>>
    /\ segs = << <<97, 32>>, <<>> >>

---------------------------------------------------------------------------
(* Properties of the parameter serialisation (SpecParams). *)

\* ";name=value" for each parameter, the value bare when it is a token
RECURSIVE ParametersText(_)
ParametersText(list) ==
    IF list = <<>> THEN <<>>
    ELSE LET last == list[Len(list)]
         IN  ParametersText(SubSeq(list, 1, Len(list) - 1))
                 \o <<SEMICOLON>> \o last[1] \o <<EQUALS>>
                 \o (IF is_token(last[2]) THEN last[2] ELSE quoted_string(last[2]))

\* C8: push_parameters(s, list) is s followed by ";name=value" for each pair
\* in order, the value quoted exactly when it is not a token.
C8_PushParametersText ==
    ops = <<"push_parameters">> => res = Str(t \o ParametersText(params))

C8_Witness ==
    /\ ops = <<"push_parameters">>
    /\ t /= <<>>
    /\ Len(params) = 2
    /\ is_token(params[1][2]) /\ ~is_token(params[2][2])
    /\ res.kind = "String"

\* no write to the sink has failed
AllWritesSucceeded == sink.failAt = 0 \/ sink.failAt > sink.calls

\* C9: when every write succeeds, the bytes write_parameters wrote are the
\* bytes of push_parameters("", list).
C9_WriteEqualsPush ==
    ops = <<"write_parameters">> /\ AllWritesSucceeded =>
        sink.out = as_bytes(push_parameters(<<>>, params))

C9_Witness ==
    /\ ops = <<"write_parameters">>
    /\ AllWritesSucceeded
    /\ Len(params) = 2
    /\ params[1][2] = <<97, 348, BACKSLASH>>
    /\ params[2][2] = <<BACKSLASH, DQUOTE>>
    /\ res = Ok

\* C10: when a write to the sink fails, the operation returns that error
\* and makes no further write.
C10_WriteFailureStops ==
    ops # <<>> /\ ops[1] \in {"write_quoted_string", "write_parameter", "write_parameters"}
        /\ sink.failAt \in 1..sink.calls =>
            /\ res = Err(sink.errno)
            /\ sink.calls = sink.failAt

C10_Witness ==
    /\ ops = <<"write_parameters">>
    /\ Len(params) = 2
    /\ sink.failAt = 9
    /\ sink.calls = 9
    /\ res = Err(sink.errno)

====
